---- MODULE Spec2Model ----
(***************************************************************************)
(* A model of MPLAnimator.Animator: a player that shows the frames of an   *)
(* animation either live (the draw routine paints the figure on demand) or *)
(* pre-rendered (each frame is saved once as <i>.png in a cache directory  *)
(* and loaded from there).                                                 *)
(*                                                                         *)
(* Every method runs to completion on the UI thread, so each handler is    *)
(* one action.  The methods are operators over a record `m` of the         *)
(* object's fields and the file system; an exception sets m.raised and     *)
(* every later statement of the handler is skipped.  `log` is the list of  *)
(* calls made by the handler that ran last, in order.                      *)
(***************************************************************************)
EXTENDS Integers, Sequences, FiniteSets, TLC

VARIABLES
  dir,            \* self.dir: path of the cache directory
  name,           \* self.name
  fs,             \* the file system: directory path -> (file name -> image)
  fig,            \* what the matplotlib figure self.fig holds
  pixmap,         \* the pixmap of self.label
  currentWidget,  \* self.stack.currentWidget(): "label" or "canvas"
  checked,        \* self.prerender_checkbox.isChecked()
  prerendered,    \* self.prerendered: "None", "False" or "True"
  value,          \* self.slider.value()
  maximum,        \* self.slider.maximum()
  frame_cb,       \* whether self.frame_cb exists
  max_frame,      \* self.max_frame (0 while it does not exist)
  click_cb,       \* whether self.click_cb exists
  log,            \* the calls of the handler that ran last
  raised,         \* whether that handler ended in an exception
  phase,          \* "script": the caller's script runs; "loop": inside qApp.exec()
  before,         \* history: the cache directory's files when that handler started
  triggered,      \* history: run() or visualize called prerender() in this session
  cleared,        \* history: clear() was called, and prerender() not explicitly since
  cacheFrom       \* history: whose completed pre-render the cache directory holds:
                  \* "this" instance's, a "previous" instance's, or "none"

vars == <<dir, name, fs, fig, pixmap, currentWidget, checked, prerendered,
          value, maximum, frame_cb, max_frame, click_cb, log, raised, phase,
          before, triggered, cleared, cacheFrom>>

\* Largest frame count the caller registers.
MaxFrame == 2

\* visualize(i=None): the argument when no index is given.
NoIndex == -1

\* QSlider's maximum before setMaximum is called.
SliderDefaultMaximum == 99

\* Animator(name=None)
NoName == "<None>"

\* The names the caller constructs instances with.
Names == {"a"}

\* tempfile.TemporaryDirectory().name
TmpDir == "/tmp/tmpdir"

EmptyDir == [n \in {} |-> "null"]

\* A directory that earlier runs of the program left behind: a cache written
\* under a larger frame count, of which one file is left.
OldImage == "old"

\* The pixmap QPixmap(path) gives when path is no readable image.
NullPixmap == "null"

\* The figure plt.figure() creates.
BlankFigure == "blank"

\* What the figure holds after the draw routine was invoked with argument i.
Frame(i) == "frame" \o ToString(i)

\* '{}.png'.format(i)
FileName(i) == ToString(i) \o ".png"

\* '.prerendered/' + name
NamedDir(nm) == ".prerendered/" \o nm

Entry(op, arg, kw) == [op |-> op, arg |-> arg, kw |-> kw]

Emit(m, op, arg) == [m EXCEPT !.log = Append(@, Entry(op, arg, {}))]

Raise(m) == [m EXCEPT !.raised = TRUE]

\* os.listdir(self.dir)
ListDir(m) == DOMAIN m.fs[m.dir]

\* not self.prerendered
Falsy(flag) == flag # "True"

\* self.frame_cb(i): raises AttributeError when no draw routine is registered;
\* the caller's routine itself raises on the indices in bad (an interrupted or
\* failing pre-render; the model lets only an explicit prerender() call fail).
CallFrameCb(m, i, bad) ==
  IF m.raised THEN m
  ELSE IF ~m.frame_cb THEN Raise(m)
  ELSE IF i \in bad THEN Raise(Emit(m, "frame_cb", i))
  ELSE [Emit(m, "frame_cb", i) EXCEPT !.fig = Frame(i)]

\* SaveFig naming the file as the progress message numbers the frame, i + 1.
SaveFig_NamedFromOne(m, i) ==
  IF m.raised THEN m
  ELSE [Emit(m, "savefig", i) EXCEPT
          !.fs[m.dir] = (FileName(i + 1) :> m.fig) @@ @]

\* plt.savefig('{}/{}.png'.format(self.dir, i))
SaveFig(m, i) ==
  IF m.raised THEN m
  ELSE [Emit(m, "savefig", i) EXCEPT
          !.fs[m.dir] = (FileName(i) :> m.fig) @@ @]

\* PrerenderLoop saving the figure before the frame is drawn into it.
RECURSIVE PrerenderLoop_SavesFirst(_, _, _)
PrerenderLoop_SavesFirst(m, i, bad) ==
  IF m.raised \/ i >= m.max_frame THEN m
  ELSE PrerenderLoop_SavesFirst(CallFrameCb(SaveFig(m, i), i, bad), i + 1, bad)

\* for i in range(self.max_frame): frame_cb(i); savefig(i)
RECURSIVE PrerenderLoop(_, _, _)
PrerenderLoop(m, i, bad) ==
  IF m.raised \/ i >= m.max_frame THEN m
  ELSE PrerenderLoop(SaveFig(CallFrameCb(m, i, bad), i), i + 1, bad)

\* prerender without the test of the directory.
prerender_Unconditional(m, bad) ==
  IF m.raised THEN m
  ELSE LET m0 == Emit(m, "prerender", NoIndex)
       IN IF ~m0.frame_cb THEN Raise(m0) ELSE PrerenderLoop(m0, 0, bad)

\* prerender rendering again when the directory lacks a registered frame.
prerender_ChecksEachFrame(m, bad) ==
  IF m.raised THEN m
  ELSE LET m0 == Emit(m, "prerender", NoIndex)
       IN IF ~m0.frame_cb THEN Raise(m0)
          ELSE IF \E i \in 0 .. m0.max_frame - 1 : FileName(i) \notin ListDir(m0)
          THEN PrerenderLoop(m0, 0, bad)
          ELSE m0

prerender(m, bad) ==
  IF m.raised THEN m
  ELSE LET m0 == Emit(m, "prerender", NoIndex)
       IN IF ListDir(m0) = {}
          THEN IF ~m0.frame_cb THEN Raise(m0) ELSE PrerenderLoop(m0, 0, bad)
          ELSE m0

\* QtGui.QPixmap('{}/{}.png'.format(self.dir, i))
QPixmap(m, i) ==
  IF FileName(i) \in ListDir(m) THEN m.fs[m.dir][FileName(i)] ELSE NullPixmap

\* if self.stack.currentWidget() != w: self.stack.setCurrentWidget(w)
SetCurrentWidget(m, w) ==
  IF m.raised THEN m
  ELSE IF m.currentWidget # w
       THEN [Emit(m, "setCurrentWidget", NoIndex) EXCEPT !.currentWidget = w]
       ELSE m

\* pm = QPixmap(...); self.label.setPixmap(pm)
SetPixmap(m, i) ==
  IF m.raised THEN m
  ELSE [Emit(m, "QPixmap", i) EXCEPT !.pixmap = QPixmap(m, i)]

\* self.canvas.draw()
CanvasDraw(m) == IF m.raised THEN m ELSE Emit(m, "canvas_draw", NoIndex)

NoFailure == {}

\* visualize choosing its branch by self.prerendered instead of the checkbox.
visualize_ByFlag(m, iarg) ==
  IF m.raised THEN m
  ELSE LET i  == IF iarg = NoIndex THEN m.value ELSE iarg
           m0 == Emit(m, "visualize", iarg)
       IN IF m0.prerendered = "True"
          THEN SetPixmap(SetCurrentWidget(m0, "label"), i)
          ELSE CanvasDraw(CallFrameCb(SetCurrentWidget(m0, "canvas"), i, NoFailure))

\* visualize calling prerender() whatever self.prerendered is.
visualize_AlwaysPrerenders(m, iarg) ==
  IF m.raised THEN m
  ELSE LET i  == IF iarg = NoIndex THEN m.value ELSE iarg
           m0 == Emit(m, "visualize", iarg)
       IN IF m0.checked
          THEN SetPixmap(SetCurrentWidget(prerender(m0, NoFailure), "label"), i)
          ELSE CanvasDraw(CallFrameCb(SetCurrentWidget(m0, "canvas"), i, NoFailure))

\* visualize showing the cached image in live mode when the frame has one.
visualize_CachedWhenPresent(m, iarg) ==
  IF m.raised THEN m
  ELSE LET i  == IF iarg = NoIndex THEN m.value ELSE iarg
           m0 == Emit(m, "visualize", iarg)
       IN IF m0.checked
          THEN LET m1 == IF Falsy(m0.prerendered) THEN prerender(m0, NoFailure) ELSE m0
               IN SetPixmap(SetCurrentWidget(m1, "label"), i)
          ELSE IF FileName(i) \in ListDir(m0)
          THEN SetPixmap(SetCurrentWidget(m0, "label"), i)
          ELSE CanvasDraw(CallFrameCb(SetCurrentWidget(m0, "canvas"), i, NoFailure))

visualize(m, iarg) ==
  IF m.raised THEN m
  ELSE LET i  == IF iarg = NoIndex THEN m.value ELSE iarg
           m0 == Emit(m, "visualize", iarg)
       IN IF m0.checked
          THEN LET m1 == IF Falsy(m0.prerendered) THEN prerender(m0, NoFailure) ELSE m0
               IN SetPixmap(SetCurrentWidget(m1, "label"), i)
          ELSE CanvasDraw(CallFrameCb(SetCurrentWidget(m0, "canvas"), i, NoFailure))

\* clear removing the images of the registered frames only.
clear_RegisteredFrames(m) ==
  IF m.raised THEN m
  ELSE [Emit(m, "clear", NoIndex) EXCEPT
          !.fs[m.dir] = [f \in DOMAIN @ \ {FileName(i) : i \in 0 .. m.max_frame - 1}
                           |-> @[f]]]

\* clear forgetting, with the images, that they were pre-rendered.
clear_ResetsFlag(m) ==
  IF m.raised THEN m
  ELSE [Emit(m, "clear", NoIndex) EXCEPT !.fs[m.dir] = EmptyDir,
                                         !.prerendered = "None"]

clear(m) ==
  IF m.raised THEN m
  ELSE [Emit(m, "clear", NoIndex) EXCEPT !.fs[m.dir] = EmptyDir]

\* QAbstractSlider.setValue: the value is bound to the range, and valueChanged,
\* which is connected to visualize, is emitted only when the value changes.
Bound(m, v) == IF v < 0 THEN 0 ELSE IF v > m.maximum THEN m.maximum ELSE v

setValue(m, v) ==
  IF m.raised THEN m
  ELSE LET b  == Bound(m, v)
           m0 == Emit(m, "setValue", v)
       IN IF b = m0.value THEN m0
          ELSE visualize([m0 EXCEPT !.value = b], b)

\* QAbstractSlider.setMaximum: the value is bound to the new range.
setMaximum(m, mx) ==
  IF m.raised THEN m
  ELSE LET m0 == [m EXCEPT !.maximum = mx]
       IN IF m0.value > mx
          THEN visualize([m0 EXCEPT !.value = mx], mx)
          ELSE m0

\* setFrameCallback giving the slider the frame count as its largest value.
setFrameCallback_MaxIsCount(m, n) ==
  LET m0 == [Emit(m, "setFrameCallback", n) EXCEPT
               !.frame_cb = TRUE, !.max_frame = n]
  IN setMaximum(m0, n)

setFrameCallback(m, n) ==
  LET m0 == [Emit(m, "setFrameCallback", n) EXCEPT
               !.frame_cb = TRUE, !.max_frame = n]
  IN setMaximum(m0, n - 1)

setClickCallback(m) ==
  [Emit(m, "setClickCallback", NoIndex) EXCEPT !.click_cb = TRUE]

\* CallClickCb with a click routine that does nothing installed by default.
CallClickCb_DefaultNoOp(m, event) ==
  IF m.raised THEN m
  ELSE IF ~m.click_cb THEN m
  ELSE [m EXCEPT !.log = Append(@, Entry("click_cb", NoIndex, event))]

\* self.click_cb(**(event.__dict__)): the event's fields as keyword arguments.
CallClickCb(m, event) ==
  IF m.raised THEN m
  ELSE IF ~m.click_cb THEN Raise(m)
  ELSE [m EXCEPT !.log = Append(@, Entry("click_cb", NoIndex, event))]

\* handleCanvasClick redisplaying before the click routine ran.
handleCanvasClick_VisualizeFirst(m, event) ==
  LET m0 == [m EXCEPT !.log = Append(@, Entry("handleCanvasClick", NoIndex, event))]
  IN CallClickCb(visualize(m0, NoIndex), event)

handleCanvasClick(m, event) ==
  LET m0 == [m EXCEPT !.log = Append(@, Entry("handleCanvasClick", NoIndex, event))]
  IN visualize(CallClickCb(m0, event), NoIndex)

BoolStr(b) == IF b THEN "True" ELSE "False"

\* self.prerendered = prerendered; self.prerender_checkbox.setChecked(prerendered)
SetMode(m, p) ==
  IF m.raised THEN m
  ELSE [Emit(m, "setChecked", NoIndex) EXCEPT
          !.prerendered = BoolStr(p), !.checked = p]

\* self.w.show()
Show(m) == IF m.raised THEN m ELSE Emit(m, "show", NoIndex)

\* self.qApp.exec()
Exec(m) == IF m.raised THEN m ELSE [Emit(m, "exec", NoIndex) EXCEPT !.phase = "loop"]

RunArgs(c, p) ==
  {<<"clear", IF c THEN 1 ELSE 0>>, <<"prerendered", IF p THEN 1 ELSE 0>>}

\* run ignoring its clear argument.
run_IgnoresClear(m, c, p, initialFrame) ==
  LET m0 == [m EXCEPT !.log = Append(@, Entry("run", initialFrame, RunArgs(c, p)))]
      m2 == IF p THEN prerender(m0, NoFailure) ELSE m0
      m3 == Show(SetMode(m2, p))
      m4 == visualize(m3, initialFrame)
  IN Exec(setValue(m4, initialFrame))

\* run displaying the slider's frame instead of initialFrame.
run_VisualizesCurrent(m, c, p, initialFrame) ==
  LET m0 == [m EXCEPT !.log = Append(@, Entry("run", initialFrame, RunArgs(c, p)))]
      m1 == IF c THEN clear(m0) ELSE m0
      m2 == IF p THEN prerender(m1, NoFailure) ELSE m1
      m3 == Show(SetMode(m2, p))
      m4 == visualize(m3, NoIndex)
  IN Exec(setValue(m4, initialFrame))

run(m, c, p, initialFrame) ==
  LET m0 == [m EXCEPT !.log = Append(@, Entry("run", initialFrame, RunArgs(c, p)))]
      m1 == IF c THEN clear(m0) ELSE m0
      m2 == IF p THEN prerender(m1, NoFailure) ELSE m1
      m3 == Show(SetMode(m2, p))
      m4 == visualize(m3, initialFrame)
  IN Exec(setValue(m4, initialFrame))

\* Animator creating its directory anew, also when it exists.
Animator_RecreatesDir(disk, nm, setup) ==
  LET d  == IF nm = NoName THEN TmpDir ELSE NamedDir(nm)
      m  == [dir |-> d,
             name |-> IF nm = NoName THEN "animator_" \o d ELSE nm,
             fs |-> (d :> EmptyDir) @@ [p \in DOMAIN disk \ {d} |-> disk[p]],
             fig |-> BlankFigure,
             pixmap |-> NullPixmap,
             currentWidget |-> "label",
             checked |-> FALSE,
             prerendered |-> "None",
             value |-> 0,
             maximum |-> SliderDefaultMaximum,
             frame_cb |-> FALSE,
             max_frame |-> 0,
             click_cb |-> FALSE,
             log |-> <<Entry("__init__", NoIndex, {})>>,
             raised |-> FALSE,
             phase |-> "script"]
  IN IF setup THEN Emit(m, "setup_cb", NoIndex) ELSE m

\* __init__ up to self.prerendered = None: the widgets of initUI and the fields,
\* with the path that lines 37-43 give self.dir, on the file system disk.
NewAnimator(disk, nm) ==
  LET d == IF nm = NoName THEN TmpDir ELSE NamedDir(nm)
  IN [dir |-> d,
      name |-> IF nm = NoName THEN "animator_" \o d ELSE nm,
      fs |-> disk,
      fig |-> BlankFigure,
      pixmap |-> NullPixmap,
      currentWidget |-> "label",
      checked |-> FALSE,
      prerendered |-> "None",
      value |-> 0,
      maximum |-> SliderDefaultMaximum,
      frame_cb |-> FALSE,
      max_frame |-> 0,
      click_cb |-> FALSE,
      log |-> <<Entry("__init__", NoIndex, {})>>,
      raised |-> FALSE,
      phase |-> "script"]

\* tempfile.TemporaryDirectory() makes a new, empty directory; a named directory
\* is made by os.makedirs only when os.path.exists finds none.
ResolveDir(m, nm) ==
  IF nm = NoName
  THEN [Emit(m, "TemporaryDirectory", NoIndex) EXCEPT
          !.fs = (m.dir :> EmptyDir) @@ [p \in DOMAIN m.fs \ {m.dir} |-> m.fs[p]]]
  ELSE LET m0 == Emit(m, "exists", NoIndex)
       IN IF m.dir \notin DOMAIN m.fs
          THEN [Emit(m0, "makedirs", NoIndex) EXCEPT !.fs = (m.dir :> EmptyDir) @@ m.fs]
          ELSE m0

\* if setup_cb: setup_cb()
CallSetupCb(m, setup) == IF setup THEN Emit(m, "setup_cb", NoIndex) ELSE m

\* Animator calling the setup routine before it has its directory.
Animator_SetupFirst(disk, nm, setup) ==
  ResolveDir(CallSetupCb(NewAnimator(disk, nm), setup), nm)

\* Animator(name, setup_cb) on the file system disk.
Animator(disk, nm, setup) ==
  CallSetupCb(ResolveDir(NewAnimator(disk, nm), nm), setup)

----------------------------------------------------------------------------

\* The state as a record, with the log of a handler that starts.
Cur ==
  [dir |-> dir, name |-> name, fs |-> fs, fig |-> fig, pixmap |-> pixmap,
   currentWidget |-> currentWidget, checked |-> checked,
   prerendered |-> prerendered, value |-> value, maximum |-> maximum,
   frame_cb |-> frame_cb, max_frame |-> max_frame, click_cb |-> click_cb,
   log |-> <<>>, raised |-> FALSE, phase |-> phase]

\* The calls of a log, by name.
Calls(l, op) == {j \in 1 .. Len(l) : l[j].op = op}

\* The handler that ran last.
Handler == log[1].op

\* A log in which prerender() ran its loop to the end.
LoopCompleted(m) ==
  m.max_frame >= 1 /\ \E j \in Calls(m.log, "savefig") : m.log[j].arg = m.max_frame - 1

\* A log in which the caller, or run(), calls prerender(); visualize's call is not one.
ExplicitPrerender(l) == l[1].op \in {"prerender", "run"} /\ Calls(l, "prerender") # {}

Observed(m) ==
  /\ before' = fs[dir]
  /\ triggered' = (triggered \/ (m.log[1].op # "prerender"
                                    /\ Calls(m.log, "prerender") # {}))
  /\ cleared' = IF ExplicitPrerender(m.log) THEN FALSE
                ELSE IF Calls(m.log, "clear") # {} THEN TRUE
                ELSE cleared
  /\ cacheFrom' = IF LoopCompleted(m) THEN "this"
                  ELSE IF Calls(m.log, "clear") # {} THEN "none"
                  ELSE cacheFrom

Becomes(m) ==
  /\ Observed(m)
  /\ dir' = m.dir /\ name' = m.name /\ fs' = m.fs /\ fig' = m.fig
  /\ pixmap' = m.pixmap /\ currentWidget' = m.currentWidget
  /\ checked' = m.checked /\ prerendered' = m.prerendered
  /\ value' = m.value /\ maximum' = m.maximum /\ frame_cb' = m.frame_cb
  /\ max_frame' = m.max_frame /\ click_cb' = m.click_cb /\ log' = m.log
  /\ raised' = m.raised /\ phase' = m.phase

\* The indices on which the caller's draw routine raises during one handler.
BadSets == {{}} \cup {{k} : k \in 0 .. max_frame - 1}

\* The positions the user can drag the slider to.
SliderValues == 0 .. maximum

\* The button_press_event's __dict__.
MouseEvents ==
  { {<<"x", 0>>, <<"y", 0>>, <<"button", 1>>},
    {<<"x", 1>>, <<"y", 0>>, <<"button", 3>>} }

\* What earlier runs of the program left on disk.
PriorDisks ==
  { [p \in {} |-> EmptyDir],
    [p \in {NamedDir("a")} |-> (FileName(MaxFrame) :> OldImage)] }

\* The previous instance is gone, and its temporary directory with it.
Persisted == [p \in DOMAIN fs \ {TmpDir} |-> fs[p]]

Init ==
  \E disk \in PriorDisks, nm \in Names \cup {NoName}, setup \in BOOLEAN :
    LET m == Animator(disk, nm, setup) IN
      /\ dir = m.dir /\ name = m.name /\ fs = m.fs /\ fig = m.fig
      /\ pixmap = m.pixmap /\ currentWidget = m.currentWidget
      /\ checked = m.checked /\ prerendered = m.prerendered
      /\ value = m.value /\ maximum = m.maximum /\ frame_cb = m.frame_cb
      /\ max_frame = m.max_frame /\ click_cb = m.click_cb /\ log = m.log
      /\ raised = m.raised /\ phase = m.phase
      /\ before = IF m.dir \in DOMAIN disk THEN disk[m.dir] ELSE EmptyDir
      /\ triggered = FALSE /\ cleared = FALSE /\ cacheFrom = "none"

\* The program is run again: a new instance is constructed with the same
\* arguments, on the file system the previous one left.
Construct ==
  \E setup \in BOOLEAN :
    LET nm == IF dir = TmpDir THEN NoName ELSE name
        m  == Animator(Persisted, nm, setup)
    IN /\ dir' = m.dir /\ name' = m.name /\ fs' = m.fs /\ fig' = m.fig
       /\ pixmap' = m.pixmap /\ currentWidget' = m.currentWidget
       /\ checked' = m.checked /\ prerendered' = m.prerendered
       /\ value' = m.value /\ maximum' = m.maximum /\ frame_cb' = m.frame_cb
       /\ max_frame' = m.max_frame /\ click_cb' = m.click_cb /\ log' = m.log
       /\ raised' = m.raised /\ phase' = m.phase
       /\ before' = IF m.dir \in DOMAIN Persisted THEN Persisted[m.dir] ELSE EmptyDir
       /\ triggered' = FALSE
       /\ cleared' = FALSE
       /\ cacheFrom' = IF nm # NoName /\ cacheFrom # "none" THEN "previous" ELSE "none"

SetFrameCallback ==
  \E n \in 1 .. MaxFrame : Becomes(setFrameCallback(Cur, n))

SetClickCallback == Becomes(setClickCallback(Cur))

Prerender == \E bad \in BadSets : Becomes(prerender(Cur, bad))

Clear == Becomes(clear(Cur))

\* run() is called once the draw routine is registered, with an initial frame
\* in [0, frame_count).
Run ==
  /\ phase = "script"
  /\ frame_cb
  /\ \E c \in BOOLEAN, p \in BOOLEAN, k \in 0 .. max_frame - 1 :
       Becomes(run(Cur, c, p, k))

\* The user drags the slider.
SliderMove ==
  /\ phase = "loop"
  /\ \E v \in SliderValues : Becomes(setValue(Cur, v))

\* The user clicks the checkbox, which is connected to nothing.
\* Toggle with the checkbox connected to visualize.
Toggle_Redisplays ==
  /\ phase = "loop"
  /\ Becomes(visualize([Emit(Cur, "toggle", NoIndex) EXCEPT !.checked = ~checked],
                       NoIndex))

Toggle ==
  /\ phase = "loop"
  /\ Becomes([Emit(Cur, "toggle", NoIndex) EXCEPT !.checked = ~checked])

\* The user clicks on the canvas.
Click ==
  /\ phase = "loop"
  /\ \E e \in MouseEvents : Becomes(handleCanvasClick(Cur, e))

\* The user closes the window: qApp.exec() returns, and run() with it.
CloseWindow ==
  /\ phase = "loop"
  /\ Becomes([Emit(Cur, "exec_returns", NoIndex) EXCEPT !.phase = "script"])

Next ==
  \/ Construct
  \/ SetFrameCallback
  \/ SetClickCallback
  \/ Prerender
  \/ Clear
  \/ Run
  \/ SliderMove
  \/ Toggle
  \/ Click
  \/ CloseWindow

Spec == Init /\ [][Next]_vars

----------------------------------------------------------------------------
(* What the claims speak of. *)

\* The invocations of the draw routine, and the images saved, by the last handler.
Draws == Calls(log, "frame_cb")
Saves == Calls(log, "savefig")

\* The images the last handler loaded for the still-image view.
Loads == Calls(log, "QPixmap")

\* A directory holding one image per index 0 .. n-1, each the figure as the draw
\* routine left it for that index, and nothing else.
Complete(files, n) ==
  /\ DOMAIN files = {FileName(i) : i \in 0 .. n - 1}
  /\ \A i \in 0 .. n - 1 : files[FileName(i)] = Frame(i)

\* The cache directory was empty when the last handler called prerender().
EmptyAtCall == before = EmptyDir \/ Calls(log, "clear") # {}

\* C1: a prerender() that finds the cache directory empty and runs to completion
\* leaves exactly the files 0.png .. (frame_count-1).png, each holding the figure
\* captured right after the draw routine ran for its index; and while the cache
\* is the one a completed pre-render left, a cached-mode visualize(i) with i below
\* that frame count shows the still-image view with the image captured for i.
C1_PrerenderFillsCache ==
  /\ (Calls(log, "prerender") # {} /\ EmptyAtCall /\ ~raised)
       => (max_frame >= 1 /\ Complete(fs[dir], max_frame))
  /\ cacheFrom # "none"
       => \E n \in 1 .. MaxFrame :
            /\ Complete(fs[dir], n)
            /\ \A j \in Loads :
                 (log[j].arg < n /\ \A k \in Loads : k <= j)
                   => (pixmap = Frame(log[j].arg) /\ currentWidget = "label")

\* The slider was moved to the last frame of a cache this instance rendered.
C1_Witness ==
  /\ Handler = "setValue" /\ Loads # {} /\ Draws = {}
  /\ cacheFrom = "this" /\ max_frame = MaxFrame /\ Complete(fs[dir], MaxFrame)
  /\ value = MaxFrame - 1 /\ pixmap = Frame(MaxFrame - 1)

\* C2: when prerender() is called right after a prerender() call that left the
\* cache directory non-empty, it invokes the draw routine zero times and leaves
\* the directory as it was.
C2_PrerenderIdempotent ==
  [][(Handler = "prerender" /\ fs[dir] # EmptyDir /\ log'[1].op = "prerender")
       => (Calls(log', "frame_cb") = {} /\ fs' = fs)]_vars

\* A prerender() call that found the cache this instance had rendered, and did
\* nothing.
C2_Witness ==
  /\ Handler = "prerender" /\ Len(log) = 1 /\ ~raised
  /\ cacheFrom = "this" /\ before = fs[dir] /\ Complete(before, max_frame)

C4_ClearThenPrerender ==
  [][/\ log'[1].op = "clear"
          => (dir' = dir /\ dir \in DOMAIN fs' /\ fs'[dir] = EmptyDir)
     /\ (Handler = "clear" /\ log'[1].op = "prerender" /\ ~raised')
          => (max_frame' >= 1 /\ Complete(fs'[dir'], max_frame'))
     /\ (log'[1].op = "run" /\ ~raised'
           /\ Calls(log', "clear") # {} /\ Calls(log', "prerender") # {})
          => (max_frame' >= 1 /\ Complete(fs'[dir'], max_frame'))]_vars

\* run() cleared a directory that held a file of an older, longer cache and
\* rendered it anew.
C4_Witness ==
  /\ Handler = "run" /\ ~raised
  /\ Calls(log, "clear") # {} /\ Calls(log, "prerender") # {}
  /\ FileName(MaxFrame) \in DOMAIN before
  /\ max_frame = MaxFrame /\ Complete(fs[dir], MaxFrame)

\* C5: on a click with a click routine registered, handleCanvasClick calls the
\* click routine once, first, with the event's fields as keyword arguments, then
\* visualize() once with no index, which shows the frame the slider is at.
C5_ClickForwarding ==
  (Handler = "handleCanvasClick" /\ click_cb)
    => /\ ~raised
       /\ Calls(log, "click_cb") = {2} /\ log[2].kw = log[1].kw
       /\ Calls(log, "visualize") = {3} /\ log[3].arg = NoIndex
       /\ IF checked
          THEN /\ Cardinality(Loads) = 1
               /\ \A j \in Loads : log[j].arg = value
               /\ pixmap = QPixmap(Cur, value) /\ currentWidget = "label"
          ELSE /\ Cardinality(Draws) = 1
               /\ \A j \in Draws : log[j].arg = value
               /\ fig = Frame(value) /\ currentWidget = "canvas"

\* A click in live mode with the slider at the last frame.
C5_Witness ==
  /\ Handler = "handleCanvasClick" /\ click_cb /\ ~checked
  /\ value = MaxFrame - 1 /\ fig = Frame(value)
  /\ log[2].op = "click_cb" /\ log[2].kw \in MouseEvents

\* C6: run(clear=True, prerendered=True, initialFrame=k) reaches the event loop
\* with the files the directory held before removed, the directory holding
\* exactly frame_count images, all rendered by this call, the still-image view
\* showing the image of frame k, and the slider at k.
C6_RunClearPrerendered ==
  (Handler = "run" /\ log[1].kw = RunArgs(TRUE, TRUE))
    => LET k == log[1].arg IN
       /\ ~raised /\ phase = "loop" /\ max_frame >= 1
       /\ Calls(log, "clear") # {}
       /\ Complete(fs[dir], max_frame)
       /\ {log[j].arg : j \in Saves} = 0 .. max_frame - 1
       /\ Cardinality(Saves) = max_frame
       /\ \A f \in DOMAIN before : f \in DOMAIN fs[dir] => fs[dir][f] # OldImage
       /\ currentWidget = "label" /\ pixmap = Frame(k) /\ value = k

\* run(clear=True, prerendered=True, initialFrame=MaxFrame-1) on a directory that
\* held a file of an older cache.
C6_Witness ==
  /\ Handler = "run" /\ log[1].kw = RunArgs(TRUE, TRUE)
  /\ log[1].arg = MaxFrame - 1 /\ max_frame = MaxFrame
  /\ FileName(MaxFrame) \in DOMAIN before
  /\ phase = "loop" /\ value = MaxFrame - 1 /\ pixmap = Frame(MaxFrame - 1)

\* C7: an instance constructed with the name of a previous instance that had
\* completed a pre-render has the same cache directory, finds the files in it
\* as they were left, and, until it clears them, neither its prerender() nor a
\* cached-mode visualize invokes the draw routine.
C7_SecondInstanceReuses ==
  cacheFrom = "previous"
    => /\ dir = NamedDir(name)
       /\ fs[dir] # EmptyDir
       /\ Handler = "__init__" => fs[dir] = before
       /\ Calls(log, "prerender") # {} => (Draws = {} /\ fs[dir] = before)
       /\ Loads # {} => Draws = {}

\* The second instance's run(prerendered=True): prerender() and the cached-mode
\* visualize ran on the first instance's images and drew nothing.
C7_Witness ==
  /\ cacheFrom = "previous" /\ Handler = "run" /\ prerendered = "True"
  /\ Calls(log, "prerender") # {} /\ Loads # {} /\ Draws = {}
  /\ max_frame = MaxFrame /\ Complete(fs[dir], MaxFrame)
  /\ pixmap = Frame(value)

\* C8 as claimed: once prerender() has been called in this session, no visualize
\* calls it again.
C8_AsClaimed ==
  [][(triggered /\ log'[1].op \notin {"prerender", "run"})
       => Calls(log', "prerender") = {}]_vars

\* C9 as claimed: after clear(), and until the caller calls prerender(), no
\* cached-mode visualize invokes the draw routine or writes a file, in any session.
C9_AsClaimed ==
  [][(cleared /\ checked /\ log'[1].op \notin {"prerender", "run"}
        /\ Calls(log', "visualize") # {})
       => (Calls(log', "frame_cb") = {} /\ fs' = fs)]_vars

\* C9 (amended): clear() leaves self.prerendered as it is, and in a session that
\* run(prerendered=True) started, where it is true, no cached-mode visualize after
\* clear() invokes the draw routine or writes a file until the caller calls
\* prerender().
C9_ClearKeepsFlag ==
  [][/\ log'[1].op = "clear" => prerendered' = prerendered
     /\ (cleared /\ checked /\ prerendered = "True"
           /\ log'[1].op \notin {"prerender", "run"}
           /\ Calls(log', "visualize") # {})
          => (Calls(log', "frame_cb") = {} /\ Calls(log', "prerender") = {}
              /\ fs' = fs)]_vars

\* A slider move in cached mode after clear() in a session started with
\* run(prerendered=True): the directory stays empty and no image is shown.
C9_Witness ==
  /\ cleared /\ checked /\ prerendered = "True"
  /\ Handler = "setValue" /\ Loads # {} /\ Draws = {}
  /\ fs[dir] = EmptyDir /\ pixmap = NullPixmap

\* C10: with a draw routine registered, a prerender() call invokes the draw
\* routine if and only if the cache directory is empty when it is called, and it
\* saves nothing otherwise: a non-empty directory is left as it is, also when it
\* lacks images of the registered frames.
C10_NonEmptyAccepted ==
  (Calls(log, "prerender") # {} /\ frame_cb)
    => /\ Draws # {} <=> EmptyAtCall
       /\ Saves # {} => EmptyAtCall
       /\ ~EmptyAtCall => fs[dir] = before

\* prerender() on a directory that holds the first image only, with two or more
\* frames registered: nothing is drawn and the other images stay missing.
C10_Witness ==
  /\ Handler = "prerender" /\ Len(log) = 1 /\ ~raised
  /\ max_frame = MaxFrame /\ DOMAIN before = {FileName(0)}
  /\ fs[dir] = before /\ FileName(MaxFrame - 1) \notin DOMAIN fs[dir]

\* C11: a click while no click routine is registered ends handleCanvasClick in an
\* error before anything else is called: visualize() is not invoked, and the view
\* shown, the mode, the slider value and the cache directory stay as they were.
C11_ClickWithoutRoutine ==
  [][(~click_cb /\ log'[1].op = "handleCanvasClick")
       => /\ raised'
          /\ Calls(log', "visualize") = {} /\ Calls(log', "click_cb") = {}
          /\ currentWidget' = currentWidget /\ pixmap' = pixmap /\ fig' = fig
          /\ checked' = checked /\ prerendered' = prerendered
          /\ value' = value /\ dir' = dir /\ fs' = fs]_vars

\* A click in cached mode on an instance that has images but no click routine.
C11_Witness ==
  /\ Handler = "handleCanvasClick" /\ ~click_cb /\ raised /\ Len(log) = 1
  /\ checked /\ fs[dir] # EmptyDir /\ fs[dir] = before

\* The last image the last handler loaded has no file in the cache directory.
LoadedMissing ==
  \E j \in Loads :
    /\ \A k \in Loads : k <= j
    /\ FileName(log[j].arg) \notin DOMAIN fs[dir]

\* C12: a cached-mode visualize(i) for an index without an image file ends in an
\* error at the time the image is loaded, instead of completing with an empty
\* or stale image shown.
C12_AsClaimed == LoadedMissing => raised

\* The visualize calls of the last handler.
Visualizes == Calls(log, "visualize")

\* C13: visualize takes its branch from the checkbox alone. Unchecked, each
\* visualize(i) calls the draw routine exactly once, with i, shows the live view
\* and neither reads nor writes the cache directory, even when a complete cache
\* exists; checked over a non-empty directory, it calls the draw routine zero
\* times and shows the still-image view.
C13_BranchByToggle ==
  (Visualizes # {} /\ ~raised)
    => IF ~checked
       THEN /\ Cardinality(Draws) = Cardinality(Visualizes)
            /\ \A j \in Draws : log[j].arg = value /\ log[j - 1].op \in {"visualize", "setCurrentWidget"}
            /\ \A k \in Visualizes : log[k].arg \in {NoIndex, value}
            /\ fig = Frame(value) /\ currentWidget = "canvas"
            /\ Loads = {} /\ Saves = {} /\ Calls(log, "prerender") = {}
            /\ (Calls(log, "clear") = {} => fs[dir] = before)
       ELSE ~EmptyAtCall
              => (Draws = {} /\ currentWidget = "label" /\ fs[dir] = before
                  /\ Cardinality(Loads) = Cardinality(Visualizes))

\* A slider move in live mode over a directory that holds every frame's image.
C13_Witness ==
  /\ Handler = "setValue" /\ ~checked /\ ~raised
  /\ Complete(fs[dir], max_frame) /\ fs[dir] = before
  /\ Cardinality(Draws) = 1 /\ currentWidget = "canvas" /\ fig = Frame(value)

\* The steps of the constructor that settle the cache directory.
DirSteps == Calls(log, "TemporaryDirectory") \cup Calls(log, "exists")
              \cup Calls(log, "makedirs")

\* C14: the constructor settles the cache directory before the setup routine
\* runs. With a name the directory is .prerendered/<name>, made when missing and
\* left with its files when present; with no name it is a new, empty temporary
\* directory. A supplied setup routine is called exactly once, with no
\* arguments, after the directory exists, and no later operation calls it.
C14_DirBeforeSetup ==
  /\ Handler # "__init__" => Calls(log, "setup_cb") = {}
  /\ Handler = "__init__"
       => /\ ~raised /\ dir \in DOMAIN fs /\ DirSteps # {}
          /\ Cardinality(Calls(log, "setup_cb")) <= 1
          /\ \A j \in Calls(log, "setup_cb") :
               /\ log[j] = Entry("setup_cb", NoIndex, {})
               /\ j = Len(log) /\ \A k \in DirSteps : k < j
          /\ IF name = "animator_" \o dir
             THEN dir = TmpDir /\ fs[dir] = EmptyDir
             ELSE /\ dir = NamedDir(name) /\ fs[dir] = before
                  /\ Calls(log, "makedirs") # {} => fs[dir] = EmptyDir

\* A named instance made with a setup routine over a directory that held a file.
C14_Witness ==
  /\ Handler = "__init__" /\ Calls(log, "setup_cb") # {}
  /\ dir = NamedDir(name) /\ fs[dir] # EmptyDir /\ fs[dir] = before

\* C15: a prerender() that finds the directory empty ends after exactly
\* frame_count draws and frame_count saves, in ascending order of index from 0,
\* the save of a frame coming after its draw and before the draw of the next,
\* so that the image stored for i holds the drawing of i.
C15_PrerenderOrder ==
  \A p \in Calls(log, "prerender") :
    (~raised /\ EmptyAtCall)
      => /\ Len(log) >= p + 2 * max_frame
         /\ \A i \in 0 .. max_frame - 1 :
              /\ log[p + 2 * i + 1] = Entry("frame_cb", i, {})
              /\ log[p + 2 * i + 2] = Entry("savefig", i, {})
         /\ Cardinality(Saves) = max_frame /\ Cardinality(Draws) = max_frame
         /\ Complete(fs[dir], max_frame)

\* prerender() rendered the largest number of frames into an empty directory.
C15_Witness ==
  /\ Handler = "prerender" /\ ~raised /\ before = EmptyDir
  /\ max_frame = MaxFrame /\ Len(log) = 1 + 2 * MaxFrame
  /\ Complete(fs[dir], MaxFrame)

\* C16: run() does its steps in the order clear (if asked), prerender (if asked),
\* flag and checkbox, display of the initial frame, slider. When the event loop
\* starts the checkbox and the flag both equal the prerendered argument, the
\* slider is at initialFrame, and every visualize of the run was for initialFrame.
C16_RunOrder ==
  Handler = "run"
    => LET c == <<"clear", 1>> \in log[1].kw
           p == <<"prerendered", 1>> \in log[1].kw
           initialFrame == log[1].arg
       IN /\ ~raised /\ phase = "loop" /\ log[Len(log)].op = "exec"
          /\ checked = p /\ prerendered = BoolStr(p) /\ value = initialFrame
          /\ Visualizes # {} /\ \A v \in Visualizes : log[v].arg = initialFrame
          /\ Calls(log, "clear") = (IF c THEN {2} ELSE {})
          /\ (Calls(log, "prerender") # {}) = p
          /\ \A a \in Calls(log, "clear"), b \in Calls(log, "prerender") : a < b
          /\ Cardinality(Calls(log, "setChecked")) = 1
          /\ Cardinality(Calls(log, "setValue")) = 1
          /\ \A y \in Calls(log, "setChecked") :
               /\ \A x \in Calls(log, "clear") \cup Calls(log, "prerender") \cup Saves : x < y
               /\ \A v \in Visualizes : y < v
          /\ \A z \in Calls(log, "setValue") :
               /\ \E v \in Visualizes : v < z
               /\ z < Len(log)

\* run(clear=True, prerendered=True) with an initial frame that moves the slider.
C16_Witness ==
  /\ Handler = "run" /\ phase = "loop" /\ checked /\ value > 0
  /\ Calls(log, "clear") # {} /\ Saves # {} /\ Cardinality(Visualizes) = 2

\* C17: once setFrameCallback(draw, n) with n >= 1 was called, the slider's value
\* is in [0, n - 1] and every index the draw routine is called with, or an image
\* is loaded or saved for, is in [0, frame_count) for the frame count registered
\* last, also after setFrameCallback was called again with a smaller count.
C17_IndicesInRange ==
  frame_cb
    => /\ max_frame >= 1
       /\ value \in 0 .. max_frame - 1
       /\ \A j \in Draws \cup Loads \cup Saves : log[j].arg \in 0 .. max_frame - 1

\* setFrameCallback with a smaller count pulled the slider back, in the event
\* loop, and the frame the slider then stands on was displayed.
C17_Witness ==
  /\ Handler = "setFrameCallback" /\ phase = "loop" /\ max_frame < MaxFrame
  /\ value = max_frame - 1 /\ Visualizes # {}
  /\ \E j \in Draws \cup Loads : log[j].arg = value

\* C18: when a visualize call completes, the stack shows the still-image view
\* exactly if the checkbox is checked; in every state exactly one of the two
\* views is shown; and a toggle of the checkbox by itself leaves the view shown,
\* and what it shows, as it was until the next visualize.
C18_ViewFollowsVisualize ==
  /\ [](/\ currentWidget \in {"label", "canvas"}
        /\ (Visualizes # {} /\ ~raised) => ((currentWidget = "label") = checked))
  /\ [][log'[1].op = "toggle"
          => /\ checked' = ~checked /\ Calls(log', "visualize") = {}
             /\ currentWidget' = currentWidget
             /\ pixmap' = pixmap /\ fig' = fig]_vars

\* After a toggle to cached mode the live view is still the one shown.
C18_Witness ==
  /\ Handler = "toggle" /\ checked /\ currentWidget = "canvas" /\ Len(log) = 1

\* What C19 says of every step but those of setFrameCallback: the files change
\* only in a handler that calls prerender() or clear(), images are saved only
\* into a directory that was empty, and setClickCallback, a toggle, a live
\* visualize, a click in live mode and a cached visualize over a non-empty
\* directory leave the files alone; clear() leaves the checkbox, the flag, the
\* slider's value and the registered routines alone.
FilesChangeByPrerenderAndClear ==
  LET h == log'[1].op
  IN /\ h \in {"setClickCallback", "toggle"} => fs' = fs
     /\ (h \in {"setValue", "handleCanvasClick"} /\ ~checked) => fs' = fs
     /\ (h \in {"setValue", "handleCanvasClick"} /\ checked /\ fs[dir] # EmptyDir)
          => fs' = fs
     /\ (h # "__init__" /\ fs' # fs)
          => Calls(log', "prerender") \cup Calls(log', "clear") # {}
     /\ Calls(log', "savefig") # {}
          => (fs[dir] = EmptyDir \/ Calls(log', "clear") # {})
     /\ h = "clear"
          => /\ fs' = [fs EXCEPT ![dir] = EmptyDir]
             /\ UNCHANGED <<checked, prerendered, value, maximum,
                            frame_cb, max_frame, click_cb>>

\* C19 as claimed: the files of the cache directory change only through
\* prerender(), which adds files only to an empty directory, and clear();
\* setFrameCallback, like the other operations listed, leaves them unchanged.
C19_AsClaimed ==
  [][/\ FilesChangeByPrerenderAndClear
     /\ log'[1].op = "setFrameCallback" => fs' = fs]_vars

\* setFrameCallback(draw, n) pulls the slider back while the box is checked, the
\* flag is not set and the directory is empty.
PullsBackOverEmptyCache ==
  /\ log'[1].op = "setFrameCallback" /\ value > log'[1].arg - 1
  /\ checked /\ Falsy(prerendered) /\ fs[dir] = EmptyDir

\* C19 (amended): as claimed, except that setFrameCallback leaves the files
\* unchanged only when it does not pull the slider back in cached mode with the
\* flag unset over an empty directory; when it does, the visualize that the
\* slider emits calls prerender(), which saves an image for every frame.
C19_FilesChangeByPrerenderAndClear ==
  [][/\ FilesChangeByPrerenderAndClear
     /\ (log'[1].op = "setFrameCallback" /\ ~PullsBackOverEmptyCache) => fs' = fs
     /\ PullsBackOverEmptyCache
          => (Calls(log', "prerender") # {} /\ Complete(fs'[dir], max_frame'))]_vars

\* setFrameCallback filled the empty directory through the slider's visualize.
C19_Witness ==
  /\ Handler = "setFrameCallback" /\ before = EmptyDir /\ checked
  /\ Saves # {} /\ Complete(fs[dir], max_frame)

====
